---- MODULE Spec2Model ----
(***************************************************************************)
(* Cuah-Quick API: registration, login, the token guard and the order      *)
(* routes, modelled for each revision of server.js kept in the repository. *)
(*                                                                         *)
(* Strings are sequences of one-character strings, so that toLowerCase,    *)
(* endsWith, split and the trailing-digit match are computed, not assumed. *)
(* A JSON value of a request body is a record [t, v]: t is "undef", "str"  *)
(* or "num", v the characters of the string or the decimal digits of the   *)
(* number.                                                                 *)
(***************************************************************************)
EXTENDS Integers, Sequences, FiniteSets, TLC

\* ------------------------------------------------------------------------
\* Bounds of the model
\* ------------------------------------------------------------------------
MaxUsers == 2
MaxOrders == 2
MaxInflight == 2
MaxTokens == 2
MaxTicks == 3

\* the minutes the clock advances by in one step
TickMinutes == 30

\* expiresIn: '1h', in minutes
TokenLifetime == 60

\* ------------------------------------------------------------------------
\* Revisions of the server
\* ------------------------------------------------------------------------
Revisions == {"A", "B", "P0", "P1", "P2", "P3", "P4"}

\* revisions whose register handler matches the trailing digits of the
\* email's local part against student_id (part_003 has no such step)
ChecksStudentId(r) == r # "P3"

\* revisions that answer "no digits" and "digits differ" with one message
MergedIdMessage(r) == r \in {"B", "P2"}

\* revisions that insert `role || 'client'` instead of the fixed 'client'
RoleFromBody(r) == r \in {"P3", "P4"}

\* revisions whose register catch block adds error.message to the 500 body
EchoesErrorMessage(r) == r \in {"B", "P2"}

\* revisions that route POST /api/orders (commented out in part_003/004)
HasOrdersRoute(r) == r \in {"A", "B", "P0", "P1", "P2"}

\* part_001 answers 201 from POST /api/orders without touching the database
OrdersStub(r) == r = "P1"

\* revisions that route GET /api/shop/orders behind verifyToken and isShop
HasShopList(r) == r \in {"A", "B", "P0", "P1", "P2"}

\* revisions that route PUT /api/shop/orders/:id
HasShopUpdate(r) == r \in {"B", "P2"}

\* a listing of the pending orders alone, in every revision
ListedPendingOnly(r) == {"pending"}

\* the statuses GET /api/shop/orders selects: 'pending' alone, or
\* IN ('pending', 'preparing', 'ready') in revision B and part_002
ListedStatuses(r) ==
    IF r \in {"B", "P2"} THEN {"pending", "preparing", "ready"} ELSE {"pending"}

\* ------------------------------------------------------------------------
\* JavaScript values and string functions
\* ------------------------------------------------------------------------
Undef == [t |-> "undef", v |-> <<>>]
Str(s) == [t |-> "str", v |-> s]
Num(s) == [t |-> "num", v |-> s]

\* !x is false exactly for these: undefined, "", 0 are falsy
Truthy(x) ==
    CASE x.t = "undef" -> FALSE
      [] x.t = "str" -> x.v # <<>>
      [] OTHER -> x.v # <<"0">>

\* a === b (no coercion: a string never equals a number)
StrictEq(a, b) == a.t = b.t /\ a.v = b.v

Uppers == <<"A", "B", "C", "D", "E", "M", "Q", "U", "X">>
Lowers == <<"a", "b", "c", "d", "e", "m", "q", "u", "x">>
Digits == {"0", "1", "2", "3", "4", "5", "6", "7", "8", "9"}

LowerChar(c) ==
    IF \E i \in 1..Len(Uppers) : Uppers[i] = c
    THEN Lowers[CHOOSE i \in 1..Len(Uppers) : Uppers[i] = c]
    ELSE c

\* String.prototype.toLowerCase
ToLowerCase(s) == [i \in 1..Len(s) |-> LowerChar(s[i])]

\* String.prototype.includes; a plausible slip for endsWith
Includes(s, suffix) ==
    \E i \in 1..(Len(s) + 1) :
        /\ i + Len(suffix) - 1 <= Len(s)
        /\ SubSeq(s, i, i + Len(suffix) - 1) = suffix

\* String.prototype.endsWith
EndsWith(s, suffix) ==
    /\ Len(s) >= Len(suffix)
    /\ SubSeq(s, Len(s) - Len(suffix) + 1, Len(s)) = suffix

\* s.split('@')[0]: everything before the first '@', all of s without one
SplitAt0(s) ==
    IF \E i \in 1..Len(s) : s[i] = "@"
    THEN LET k == CHOOSE i \in 1..Len(s) :
                      s[i] = "@" /\ \A j \in 1..(i - 1) : s[j] # "@"
         IN  SubSeq(s, 1, k - 1)
    ELSE s

\* s.match(/(\d+)$/): match[0] is the maximal run of digits that ends s;
\* <<>> stands for the null of "no match"
MatchTrailingDigits(s) ==
    LET n == CHOOSE k \in 0..Len(s) :
                 /\ \A j \in (Len(s) - k + 1)..Len(s) : s[j] \in Digits
                 /\ (k = Len(s) \/ s[Len(s) - k] \notin Digits)
    IN  SubSeq(s, Len(s) - n + 1, Len(s))

requiredDomain == <<"@", "u", "c", "q", ".", "e", "d", "u", ".", "m", "x">>

\* ------------------------------------------------------------------------
\* Requests the clients send
\* ------------------------------------------------------------------------
DomainUpper == <<"@", "U", "C", "Q", ".", "E", "D", "U", ".", "M", "X">>

\* e-mail strings of the register and login bodies
EmailA1 == <<"a", "1">> \o requiredDomain
EmailB1 == <<"b", "1">> \o requiredDomain
EmailA01Upper == <<"a", "0", "1">> \o DomainUpper
EmailMidDigits == <<"a", "1", "b">> \o requiredDomain
EmailNoLocal == requiredDomain
EmailOtherDomain == <<"a", "1">> \o requiredDomain \o <<".", "c", "o">>
Emails ==
    {Str(EmailA1), Str(EmailB1), Str(EmailA01Upper), Str(EmailMidDigits),
     Str(EmailNoLocal), Str(EmailOtherDomain), Str(<<>>), Num(<<"7">>), Undef}

StudentIds == {Str(<<"1">>), Str(<<"0", "1">>), Num(<<"1">>), Undef}
Passwords == {Str(<<"p">>), Str(<<"q">>), Undef}
RoleShop == <<"s", "h", "o", "p">>
RoleClient == <<"c", "l", "i", "e", "n", "t">>
Roles == {Str(RoleShop), Undef}
Present == Str(<<"x">>)

RegisterBody(n, e, p, ph, r, s) ==
    [full_name |-> n, email |-> e, password |-> p, phone |-> ph,
     role |-> r, student_id |-> s]

\* every e-mail with every student ID; a role in the body of the requests
\* that can pass; and each of the other fields missing in turn
RegisterBodies ==
    {RegisterBody(Present, e, Str(<<"p">>), Present, Undef, s) :
        e \in Emails, s \in StudentIds}
    \cup {RegisterBody(Present, e, Str(<<"p">>), Present, Str(RoleShop), s) :
            e \in {Str(EmailA1), Str(EmailB1), Str(EmailA01Upper)},
            s \in {Str(<<"1">>), Str(<<"0", "1">>)}}
    \cup {RegisterBody(Undef, e, Str(<<"p">>), Present, Undef, Str(<<"1">>)) :
            e \in {Str(EmailA1), Str(EmailOtherDomain)}}
    \cup {RegisterBody(Present, e, Undef, Present, Undef, Str(<<"1">>)) :
            e \in {Str(EmailA1), Str(EmailOtherDomain), Str(EmailMidDigits)}}
    \cup {RegisterBody(Present, e, Str(<<"p">>), Str(<<>>), Undef, Str(<<"1">>)) :
            e \in {Str(EmailA1), Str(EmailMidDigits)}}

\* the requests during which the driver cannot reach the database
RegisterBodiesDbDown ==
    {RegisterBody(Present, e, Str(<<"p">>), Present, Undef, Str(<<"1">>)) :
        e \in {Str(EmailA1), Str(EmailB1), Str(EmailOtherDomain)}}

\* the database answers a statement, or the driver fails it
DbStates == {"up", "down"}

\* ------------------------------------------------------------------------
\* State
\* ------------------------------------------------------------------------
VARIABLES
    rev,      \* the revision of server.js that is deployed
    secret,   \* whether process.env.JWT_SECRET is set in this deployment
    users,    \* table users, in insertion order
    orders,   \* table orders, in insertion order
    req,      \* the request handled by the last step
    resp,     \* the response to it
    sql,      \* the database statements the last step issued
    inflight, \* register requests suspended at their INSERT
    log,      \* the answers given to the requests that were suspended
    now,      \* the clock, in minutes
    issued    \* the tokens the clients were given and still hold

vars == <<rev, secret, users, orders, req, resp, sql, inflight, log, now, issued>>

NoToken == [id |-> 0, role |-> <<>>, sig |-> "none", iat |-> 0, exp |-> 0]
NoUser == [id |-> 0, email |-> Undef, role |-> <<>>, student_id |-> Undef]
NoReq == [op |-> "none"]
NoResp ==
    [status |-> 0, msg |-> "", detail |-> "", token |-> NoToken, user |-> NoUser,
     orders |-> <<>>]

Response(st, m) ==
    [status |-> st, msg |-> m, detail |-> "", token |-> NoToken, user |-> NoUser,
     orders |-> <<>>]

SecretStates == {"set", "unset"}

Init ==
    /\ rev \in Revisions
    /\ secret \in SecretStates
    /\ users = <<>>
    /\ orders = <<>>
    /\ req = NoReq
    /\ resp = NoResp
    /\ sql = <<>>
    /\ inflight = {}
    /\ log = <<>>
    /\ now = 0
    /\ issued = {}

\* ------------------------------------------------------------------------
\* The database (its schema is not part of the sources)
\* ------------------------------------------------------------------------
\* a text column stores a string as it is and a number as its digits
ToText(x) == x.v

\* the unique keys of table users: email, and student_id
UniqueViolation(tbl, email, sid) ==
    \E i \in 1..Len(tbl) : tbl[i].email = email \/ tbl[i].student_id = sid

\* bcrypt.hash(password, 10): a salted hash that only compare can match
BcryptHash(p) == [alg |-> "bcrypt", cost |-> 10, of |-> p.v]

\* the row INSERT INTO users ... VALUES (...) adds; the id is assigned by
\* the table
UserRow(tbl, b, role) ==
    [id |-> Len(tbl) + 1, full_name |-> ToText(b.full_name),
     email |-> ToText(b.email), password_hash |-> BcryptHash(b.password),
     phone |-> ToText(b.phone), role |-> role,
     student_id |-> ToText(b.student_id)]

\* ------------------------------------------------------------------------
\* POST /api/register
\* ------------------------------------------------------------------------
\* a validation whose domain test is includes instead of endsWith
ValidateIncludes(r, b) ==
    IF ~(Truthy(b.full_name) /\ Truthy(b.email) /\ Truthy(b.password)
         /\ Truthy(b.phone) /\ Truthy(b.student_id))
    THEN "MissingFields"
    ELSE IF b.email.t # "str"
    THEN "throw"
    ELSE IF ~Includes(ToLowerCase(b.email.v), requiredDomain)
    THEN "InvalidDomain"
    ELSE "ok"

\* steps 1 to 3 of the handler: the error it answers with, "throw" when
\* email.toLowerCase is not a function, "ok" when the request passes
RegisterValidate(r, b) ==
    IF ~(Truthy(b.full_name) /\ Truthy(b.email) /\ Truthy(b.password)
         /\ Truthy(b.phone) /\ Truthy(b.student_id))
    THEN "MissingFields"
    ELSE IF b.email.t # "str"
    THEN "throw"
    ELSE IF ~EndsWith(ToLowerCase(b.email.v), requiredDomain)
    THEN "InvalidDomain"
    ELSE IF ~ChecksStudentId(r)
    THEN "ok"
    ELSE LET localPart == SplitAt0(b.email.v)
             match == MatchTrailingDigits(localPart)
         IN  IF match = <<>>
             THEN IF MergedIdMessage(r)
                  THEN "StudentIdMismatch"
                  ELSE "MissingStudentIdInEmail"
             ELSE IF ~StrictEq(Str(match), b.student_id)
             THEN "StudentIdMismatch"
             ELSE "ok"

\* finalRole: 'client', or `role || 'client'` in part_003 and part_004
FinalRole(r, b) ==
    IF RoleFromBody(r) /\ Truthy(b.role) THEN ToText(b.role) ELSE RoleClient

\* a catch block that answers every error as a 500
CatchAll500(r, err) ==
    [Response(500, "InternalError") EXCEPT
        !.detail = IF EchoesErrorMessage(r) THEN err ELSE ""]

\* the catch block: the driver's duplicate-key code is answered 400, any
\* other error 500 (with error.message in the body in revision B, part_002)
RegisterCatch(r, err) ==
    IF err = "ER_DUP_ENTRY"
    THEN Response(400, "DuplicateUser")
    ELSE [Response(500, "InternalError") EXCEPT
            !.detail = IF EchoesErrorMessage(r) THEN err ELSE ""]

\* a token signed for the id after the user's
JwtSignNextId(id, role) ==
    [id |-> id + 1, role |-> role, sig |-> "server", iat |-> now,
     exp |-> now + TokenLifetime]

\* jwt.sign({id, role}, JWT_SECRET, {expiresIn: '1h'})
JwtSign(id, role) ==
    [id |-> id, role |-> role, sig |-> "server", iat |-> now,
     exp |-> now + TokenLifetime]

\* what jwt.sign and jwt.verify throw without a key
NoSecretError == "secretOrPrivateKey must have a value"

\* the 201 answer: the token and the user view (the values of the request
\* with mysql2, the RETURNING row with pg)
RegisterCreated(r, b, row) ==
    [status |-> 201, msg |-> "Registered", detail |-> "",
     token |-> JwtSign(row.id, row.role),
     user |-> [id |-> row.id,
               email |-> IF r \in {"P1", "P3", "P4"}
                         THEN Str(row.email) ELSE b.email,
               role |-> row.role,
               student_id |-> IF r \in {"P1", "P3", "P4"}
                              THEN Str(row.student_id) ELSE b.student_id],
     orders |-> <<>>]

Statement(text, done) == [stmt |-> text, done |-> done]

\* after the INSERT: jwt.sign throws when JWT_SECRET is not set and the catch
\* block answers, else the 201 answer is sent
RegisterSigned(r, b, row) ==
    IF secret = "unset" THEN RegisterCatch(r, NoSecretError)
    ELSE RegisterCreated(r, b, row)

\* an INSERT IGNORE: a duplicate key raises no error and the handler goes on
\* to answer 201
InsertIgnore(r, tbl, b, db) ==
    IF db = "down"
    THEN [users |-> tbl, resp |-> RegisterCatch(r, "ECONNREFUSED"),
          sql |-> <<Statement("INSERT users", FALSE)>>]
    ELSE LET row == UserRow(tbl, b, FinalRole(r, b))
             dup == UniqueViolation(tbl, ToText(b.email), ToText(b.student_id))
         IN  [users |-> IF dup THEN tbl ELSE Append(tbl, row),
              resp |-> RegisterCreated(r, b, row),
              sql |-> <<Statement("INSERT users", ~dup)>>]

\* the INSERT and what follows it; db is whether the driver reaches the
\* database.  Gives the new table, the response and the statement log.
RegisterInsert(r, tbl, b, db) ==
    IF db = "down"
    THEN [users |-> tbl, resp |-> RegisterCatch(r, "ECONNREFUSED"),
          sql |-> <<Statement("INSERT users", FALSE)>>]
    ELSE IF UniqueViolation(tbl, ToText(b.email), ToText(b.student_id))
    THEN [users |-> tbl, resp |-> RegisterCatch(r, "ER_DUP_ENTRY"),
          sql |-> <<Statement("INSERT users", FALSE)>>]
    ELSE LET row == UserRow(tbl, b, FinalRole(r, b))
         IN  [users |-> Append(tbl, row), resp |-> RegisterSigned(r, b, row),
              sql |-> <<Statement("INSERT users", TRUE)>>]

\* the whole handler, for one request at a time
RegisterOutcome(r, tbl, b, db) ==
    LET v == RegisterValidate(r, b)
    IN  IF v = "ok"
        THEN RegisterInsert(r, tbl, b, db)
        ELSE [users |-> tbl,
              resp |-> IF v = "throw"
                       THEN RegisterCatch(r, "TypeError")
                       ELSE Response(400, v),
              sql |-> <<>>]

\* the tokens a client holds after an answer: those it held, and the one
\* of the answer
Holding(held, answer) ==
    IF answer.token = NoToken THEN held ELSE held \cup {answer.token}

Register(b, db) ==
    LET out == RegisterOutcome(rev, users, b, db)
    IN  /\ Len(out.users) <= MaxUsers
        /\ Cardinality(Holding(issued, out.resp)) <= MaxTokens
        /\ req' = [op |-> "register", body |-> b, db |-> db]
        /\ users' = out.users
        /\ resp' = out.resp
        /\ sql' = out.sql
        /\ issued' = Holding(issued, out.resp)
        /\ UNCHANGED <<rev, secret, orders, inflight, log, now>>

\* ------------------------------------------------------------------------
\* POST /api/login
\* ------------------------------------------------------------------------
LoginBodies ==
    {[email |-> e, password |-> p] :
        e \in {Str(EmailA1), Str(EmailB1), Str(EmailA01Upper)}, p \in Passwords}

\* SELECT * FROM users WHERE email = ?
SelectByEmail(tbl, email) == SelectSeq(tbl, LAMBDA u : u.email = ToText(email))

\* bcrypt.compare(data, hash): it rejects when data is not a string
\* ("data and hash arguments required"), else tells whether hash is a hash
\* of data
BcryptCompare(data, hash) ==
    IF data.t # "str"
    THEN "throw"
    ELSE IF hash = BcryptHash(data) THEN "match" ELSE "differ"

\* a login that signs every token as a client's
LoginOkAsClient(user) ==
    [status |-> 200, msg |-> "LoggedIn", detail |-> "",
     token |-> JwtSign(user.id, RoleClient),
     user |-> [id |-> user.id, email |-> Str(user.email), role |-> user.role,
               student_id |-> Undef],
     orders |-> <<>>]

\* the 200 answer of login
LoginOk(user) ==
    [status |-> 200, msg |-> "LoggedIn", detail |-> "",
     token |-> JwtSign(user.id, user.role),
     user |-> [id |-> user.id, email |-> Str(user.email), role |-> user.role,
               student_id |-> Undef],
     orders |-> <<>>]

\* after the password matched: jwt.sign throws when JWT_SECRET is not set
\* and the catch block answers 500, else the 200 answer is sent
LoginSigned(user) ==
    IF secret = "unset" THEN Response(500, "InternalError") ELSE LoginOk(user)

\* the whole handler: the response and the statement log
LoginOutcome(tbl, b, db) ==
    IF db = "down"
    THEN [resp |-> Response(500, "InternalError"),
          sql |-> <<Statement("SELECT users", FALSE)>>]
    ELSE LET rows == SelectByEmail(tbl, b.email)
             cmp == IF rows = <<>>
                    THEN "nouser"
                    ELSE BcryptCompare(b.password, rows[1].password_hash)
         IN  [resp |-> CASE cmp = "nouser" -> Response(401, "InvalidCredentials")
                         [] cmp = "differ" -> Response(401, "InvalidCredentials")
                         [] cmp = "throw" -> Response(500, "InternalError")
                         [] OTHER -> LoginSigned(rows[1]),
              sql |-> <<Statement("SELECT users", TRUE)>>]

Login(b, db) ==
    LET out == LoginOutcome(users, b, db)
    IN  /\ Cardinality(Holding(issued, out.resp)) <= MaxTokens
        /\ req' = [op |-> "login", body |-> b, db |-> db]
        /\ resp' = out.resp
        /\ sql' = out.sql
        /\ issued' = Holding(issued, out.resp)
        /\ UNCHANGED <<rev, secret, users, orders, inflight, log, now>>

\* ------------------------------------------------------------------------
\* The guard: verifyToken
\* ------------------------------------------------------------------------
\* an Authorization header is the list of its space-separated fields; a
\* field is a scheme word, the empty string, or a token
Word(w) == [w |-> w, tok |-> NoToken]
Jwt(t) == [w |-> "jwt", tok |-> t]
NoHeader == [present |-> FALSE, fields |-> <<>>]
Header(fields) == [present |-> TRUE, fields |-> fields]

\* the tokens a client can hold: those the server issued for the users of
\* the table, and one signed with another key
ForgedToken ==
    [id |-> 1, role |-> RoleShop, sig |-> "other", iat |-> now,
     exp |-> now + TokenLifetime]
IssuedTokens(tbl) ==
    IF secret = "unset" THEN {}
    ELSE {JwtSign(tbl[i].id, tbl[i].role) : i \in 1..Len(tbl)}

Headers(tbl) ==
    {NoHeader, Header(<<Word("Bearer")>>), Header(<<Word("Bearer"), Word("x")>>)}
    \cup {Header(<<Word("Bearer"), Jwt(t)>>) :
            t \in IssuedTokens(tbl) \cup {ForgedToken}}
    \cup {Header(<<Word("Basic"), Jwt(t)>>) : t \in IssuedTokens(tbl)}
    \cup {Header(<<Word("Bearer"), Word(""), Jwt(t)>>) : t \in IssuedTokens(tbl)}

\* a jwt.verify that is told to ignore the expiry
VerifyTokenNoExpiry(h) ==
    LET token == IF h.present /\ Len(h.fields) >= 2 THEN h.fields[2] ELSE Word("")
    IN  IF token.w = ""
        THEN [pass |-> FALSE, resp |-> Response(401, "MissingToken"),
              user |-> NoToken]
        ELSE IF token.w # "jwt" \/ token.tok.sig # "server"
        THEN [pass |-> FALSE, resp |-> Response(401, "InvalidToken"),
              user |-> NoToken]
        ELSE [pass |-> TRUE, resp |-> NoResp, user |-> token.tok]

\* verifyToken: authHeader && authHeader.split(' ')[1], 401 without it,
\* jwt.verify, 401 when that fails (no JWT_SECRET, malformed, signed with
\* another key, or now at or past exp), else req.user = the claims and next()
VerifyToken(h) ==
    LET token == IF h.present /\ Len(h.fields) >= 2 THEN h.fields[2] ELSE Word("")
    IN  IF token.w = ""
        THEN [pass |-> FALSE, resp |-> Response(401, "MissingToken"),
              user |-> NoToken]
        ELSE IF secret = "unset" \/ token.w # "jwt" \/ token.tok.sig # "server"
                \/ now >= token.tok.exp
        THEN [pass |-> FALSE, resp |-> Response(401, "InvalidToken"),
              user |-> NoToken]
        ELSE [pass |-> TRUE, resp |-> NoResp, user |-> token.tok]

\* ------------------------------------------------------------------------
\* POST /api/orders
\* ------------------------------------------------------------------------
\* the body a client sends: the fields the handler destructures, and two it
\* never reads (user_id, status), absent unless the client adds them
OrderBody(sh, ta, bu, cl, dn) ==
    [shop_id |-> sh, total_amount |-> ta, building |-> bu, classroom |-> cl,
     delivery_notes |-> dn, user_id |-> Undef, status |-> Undef]

\* a complete body with and without notes, and each required field missing
OrderBodies ==
    {OrderBody(Num(<<"1">>), Num(<<"5">>), Present, Present, dn) :
        dn \in {Present, Undef}}
    \cup {OrderBody(Undef, Num(<<"5">>), Present, Present, Undef),
          OrderBody(Num(<<"1">>), Undef, Present, Present, Undef),
          OrderBody(Num(<<"1">>), Num(<<"5">>), Undef, Present, Undef),
          OrderBody(Num(<<"1">>), Num(<<"5">>), Present, Undef, Undef),
          OrderBody(Undef, Undef, Undef, Undef, Undef)}

\* the creation timestamp the orders table gives a new row: the clock's
\* reading, so rows inserted between two steps of the clock share it
CreatedAt == now

\* an INSERT whose owner is the body's user_id when the body has one (the
\* bodies that have one say 2)
OrderRowOwnerFromBody(tbl, user_id, b) ==
    [id |-> Len(tbl) + 1,
     user_id |-> IF Truthy(b.user_id) THEN 2 ELSE user_id,
     shop_id |-> ToText(b.shop_id),
     total_amount |-> ToText(b.total_amount), building |-> ToText(b.building),
     classroom |-> ToText(b.classroom),
     delivery_notes |-> IF Truthy(b.delivery_notes)
                        THEN ToText(b.delivery_notes) ELSE <<>>,
     status |-> "pending", created_at |-> CreatedAt]

\* the row INSERT INTO orders ... VALUES (...) adds: delivery_notes || ''
\* and the status 'pending'
OrderRow(tbl, user_id, b) ==
    [id |-> Len(tbl) + 1, user_id |-> user_id, shop_id |-> ToText(b.shop_id),
     total_amount |-> ToText(b.total_amount), building |-> ToText(b.building),
     classroom |-> ToText(b.classroom),
     delivery_notes |-> IF Truthy(b.delivery_notes)
                        THEN ToText(b.delivery_notes) ELSE <<>>,
     status |-> "pending", created_at |-> CreatedAt]

OrderCreated(id) ==
    [status |-> 201, msg |-> "OrderCreated", detail |-> "",
     token |-> NoToken, user |-> [NoUser EXCEPT !.id = id], orders |-> <<>>]

\* the handler behind verifyToken (the stub of part_001 answers 201 at once)
OrderHandler(r, tbl, user, b, db) ==
    IF OrdersStub(r)
    THEN [orders |-> tbl, resp |-> Response(201, "OrderStub"), sql |-> <<>>]
    ELSE IF ~(Truthy(b.shop_id) /\ Truthy(b.total_amount)
              /\ Truthy(b.building) /\ Truthy(b.classroom))
    THEN [orders |-> tbl, resp |-> Response(400, "MissingFields"), sql |-> <<>>]
    ELSE IF db = "down"
    THEN [orders |-> tbl, resp |-> Response(500, "InternalError"),
          sql |-> <<Statement("INSERT orders", FALSE)>>]
    ELSE LET row == OrderRow(tbl, user.id, b)
         IN  [orders |-> Append(tbl, row), resp |-> OrderCreated(row.id),
              sql |-> <<Statement("INSERT orders", TRUE)>>]

\* a route that validates the body before it authenticates
OrdersBodyFirst(r, tbl, h, b, db) ==
    IF ~(Truthy(b.shop_id) /\ Truthy(b.total_amount)
         /\ Truthy(b.building) /\ Truthy(b.classroom))
    THEN [orders |-> tbl, resp |-> Response(400, "MissingFields"), sql |-> <<>>]
    ELSE LET auth == VerifyToken(h)
         IN  IF auth.pass
             THEN OrderHandler(r, tbl, auth.user, b, db)
             ELSE [orders |-> tbl, resp |-> auth.resp, sql |-> <<>>]

\* app.post('/api/orders', verifyToken, handler)
OrdersOutcome(r, tbl, h, b, db) ==
    LET auth == VerifyToken(h)
    IN  IF auth.pass
        THEN OrderHandler(r, tbl, auth.user, b, db)
        ELSE [orders |-> tbl, resp |-> auth.resp, sql |-> <<>>]

PostOrders(h, b, db) ==
    LET out == OrdersOutcome(rev, orders, h, b, db)
    IN  /\ HasOrdersRoute(rev)
        /\ Len(out.orders) <= MaxOrders
        /\ req' = [op |-> "orders", header |-> h, body |-> b, db |-> db,
                   at |-> now]
        /\ orders' = out.orders
        /\ resp' = out.resp
        /\ sql' = out.sql
        /\ UNCHANGED <<rev, secret, users, inflight, log, now, issued>>

\* ------------------------------------------------------------------------
\* The guard: isShop, and the two guards in front of a shop route
\* ------------------------------------------------------------------------
\* req.user && req.user.role === 'shop' (NoToken stands for no req.user)
IsShop(user) == user # NoToken /\ user.role = RoleShop

\* a chain that asks for the role before it authenticates: req.user is not
\* set yet, and every request is answered 403
ShopGuardRoleFirst(h) ==
    IF ~IsShop(NoToken)
    THEN [pass |-> FALSE, resp |-> Response(403, "Forbidden"), user |-> NoToken]
    ELSE VerifyToken(h)

\* a role check that asks only for an authenticated user
ShopGuardAnyRole(h) ==
    LET auth == VerifyToken(h)
    IN  IF ~auth.pass THEN auth
        ELSE IF auth.user = NoToken
        THEN [pass |-> FALSE, resp |-> Response(403, "Forbidden"), user |-> NoToken]
        ELSE auth

\* verifyToken, isShop: the role is asked for once the token is verified
ShopGuard(h) ==
    LET auth == VerifyToken(h)
    IN  IF ~auth.pass THEN auth
        ELSE IF ~IsShop(auth.user)
        THEN [pass |-> FALSE, resp |-> Response(403, "Forbidden"), user |-> NoToken]
        ELSE auth

\* the shop role is given by hand, by an UPDATE of the users table outside
\* the API
GrantShop(i) ==
    /\ i \in 1..Len(users)
    /\ users[i].role # RoleShop
    /\ users' = [users EXCEPT ![i].role = RoleShop]
    /\ UNCHANGED <<rev, secret, orders, req, resp, sql, inflight, log, now, issued>>

\* the clock moves on
Tick ==
    /\ now < MaxTicks * TickMinutes
    /\ now' = now + TickMinutes
    /\ UNCHANGED <<rev, secret, users, orders, req, resp, sql, inflight, log, issued>>

\* ------------------------------------------------------------------------
\* GET /api/shop/orders
\* ------------------------------------------------------------------------
\* a SELECT of every column of the user next to the order's
ShopViewEveryColumn(r, o, u) ==
    [id |-> o.id, status |-> o.status, total_amount |-> o.total_amount,
     created_at |-> o.created_at, client_name |-> u.full_name,
     client_phone |-> u.phone, building |-> o.building,
     classroom |-> o.classroom, delivery_notes |-> o.delivery_notes,
     email |-> u.email, password_hash |-> u.password_hash]

\* the columns of one row of the answer (part_001 selects the first six)
ShopView(r, o, u) ==
    IF r = "P1"
    THEN [id |-> o.id, status |-> o.status, total_amount |-> o.total_amount,
          created_at |-> o.created_at, client_name |-> u.full_name,
          client_phone |-> u.phone]
    ELSE [id |-> o.id, status |-> o.status, total_amount |-> o.total_amount,
          created_at |-> o.created_at, client_name |-> u.full_name,
          client_phone |-> u.phone, building |-> o.building,
          classroom |-> o.classroom, delivery_notes |-> o.delivery_notes]

\* FROM orders o JOIN users u ON o.user_id = u.id WHERE o.status ...: the
\* positions of the orders selected
Selected(r, otbl, utbl) ==
    {i \in 1..Len(otbl) :
        /\ otbl[i].status \in ListedStatuses(r)
        /\ \E j \in 1..Len(utbl) : utbl[j].id = otbl[i].user_id}

Owner(utbl, o) == utbl[CHOOSE j \in 1..Len(utbl) : utbl[j].id = o.user_id]

\* ORDER BY o.created_at ASC: every arrangement of the selected rows in
\* which no row comes before one of an earlier timestamp; the database
\* may return rows of one timestamp in any order
OrderedByCreatedAt(otbl, sel) ==
    {f \in [1..Cardinality(sel) -> sel] :
        /\ \A j, k \in 1..Cardinality(sel) : j # k => f[j] # f[k]
        /\ \A j, k \in 1..Cardinality(sel) :
              j < k => otbl[f[j]].created_at <= otbl[f[k]].created_at}

ListHandler(r, otbl, utbl, db) ==
    IF db = "down"
    THEN {[resp |-> Response(500, "InternalError"),
           sql |-> <<Statement("SELECT orders", FALSE)>>]}
    ELSE {[resp |-> [Response(200, "Orders") EXCEPT
                       !.orders = [k \in 1..Len(f) |->
                                    ShopView(r, otbl[f[k]], Owner(utbl, otbl[f[k]]))]],
           sql |-> <<Statement("SELECT orders", TRUE)>>] :
            f \in OrderedByCreatedAt(otbl, Selected(r, otbl, utbl))}

\* app.get('/api/shop/orders', verifyToken, isShop, handler): the answers
\* the request can get
ListOutcomes(r, otbl, utbl, h, db) ==
    LET guard == ShopGuard(h)
    IN  IF guard.pass
        THEN ListHandler(r, otbl, utbl, db)
        ELSE {[resp |-> guard.resp, sql |-> <<>>]}

ListOrders(h, db) ==
    /\ HasShopList(rev)
    /\ \E out \in ListOutcomes(rev, orders, users, h, db) :
        /\ req' = [op |-> "list", header |-> h, db |-> db, at |-> now]
        /\ resp' = out.resp
        /\ sql' = out.sql
    /\ UNCHANGED <<rev, secret, users, orders, inflight, log, now, issued>>

\* ------------------------------------------------------------------------
\* PUT /api/shop/orders/:id
\* ------------------------------------------------------------------------
\* a list of valid statuses that has 'pending' in it
StatusesWithPending == {"pending", "preparing", "ready", "delivered", "cancelled"}

validStatuses == {"preparing", "ready", "delivered", "cancelled"}

\* the status of a body: a valid one, 'pending', another word, the empty
\* string, or none
NoStatus == "undefined"
StatusInputs == validStatuses \cup {"pending", "", NoStatus}

\* !status
StatusFalsy(st) == st \in {"", NoStatus}

\* an UPDATE without its WHERE clause
UpdateEveryRow(otbl, id, st) ==
    [i \in 1..Len(otbl) |-> [otbl[i] EXCEPT !.status = st]]

\* UPDATE orders SET status = ? WHERE id = ?
UpdateStatus(otbl, id, st) ==
    [i \in 1..Len(otbl) |->
        IF otbl[i].id = id THEN [otbl[i] EXCEPT !.status = st] ELSE otbl[i]]

\* a driver that reports the rows the UPDATE changed, not those it matched
ChangedRows(otbl, id, st) ==
    Cardinality({i \in 1..Len(otbl) : otbl[i].id = id /\ otbl[i].status # st})

\* result.affectedRows: the rows WHERE id = ? matched (the driver connects
\* with the flag that reports found rows)
AffectedRows(otbl, id, st) ==
    Cardinality({i \in 1..Len(otbl) : otbl[i].id = id})

\* a handler that looks the order up before it looks at the status
UpdateExistenceFirst(otbl, id, st, db) ==
    IF db = "up" /\ AffectedRows(otbl, id, st) = 0
    THEN [orders |-> otbl, resp |-> Response(404, "OrderNotFound"),
          sql |-> <<Statement("SELECT orders", TRUE)>>]
    ELSE IF StatusFalsy(st) \/ st \notin validStatuses
    THEN [orders |-> otbl, resp |-> Response(400, "InvalidStatus"), sql |-> <<>>]
    ELSE IF db = "down"
    THEN [orders |-> otbl, resp |-> Response(500, "InternalError"),
          sql |-> <<Statement("UPDATE orders", FALSE)>>]
    ELSE [orders |-> UpdateStatus(otbl, id, st), resp |-> Response(200, "Updated"),
          sql |-> <<Statement("UPDATE orders", TRUE)>>]

UpdateHandler(otbl, id, st, db) ==
    IF StatusFalsy(st) \/ st \notin validStatuses
    THEN [orders |-> otbl, resp |-> Response(400, "InvalidStatus"), sql |-> <<>>]
    ELSE IF db = "down"
    THEN [orders |-> otbl, resp |-> Response(500, "InternalError"),
          sql |-> <<Statement("UPDATE orders", FALSE)>>]
    ELSE IF AffectedRows(otbl, id, st) = 0
    THEN [orders |-> UpdateStatus(otbl, id, st),
          resp |-> Response(404, "OrderNotFound"),
          sql |-> <<Statement("UPDATE orders", TRUE)>>]
    ELSE [orders |-> UpdateStatus(otbl, id, st), resp |-> Response(200, "Updated"),
          sql |-> <<Statement("UPDATE orders", TRUE)>>]

\* app.put('/api/shop/orders/:id', verifyToken, isShop, handler)
UpdateOutcome(otbl, h, id, st, db) ==
    LET guard == ShopGuard(h)
    IN  IF guard.pass
        THEN UpdateHandler(otbl, id, st, db)
        ELSE [orders |-> otbl, resp |-> guard.resp, sql |-> <<>>]

UpdateOrder(h, id, st, db) ==
    LET out == UpdateOutcome(orders, h, id, st, db)
    IN  /\ HasShopUpdate(rev)
        /\ req' = [op |-> "update", header |-> h, id |-> id, status |-> st,
                   db |-> db, at |-> now]
        /\ orders' = out.orders
        /\ resp' = out.resp
        /\ sql' = out.sql
        /\ UNCHANGED <<rev, secret, users, inflight, log, now, issued>>

\* ------------------------------------------------------------------------
\* Register requests in flight together: the handler is suspended at its
\* await of the INSERT, and the database runs the INSERTs one at a time
\* ------------------------------------------------------------------------
ConcurrentBodies ==
    {RegisterBody(Present, Str(e), Str(<<"p">>), Present, Undef, s) :
        e \in {EmailA1, EmailB1, EmailA01Upper},
        s \in {Str(<<"1">>), Str(<<"0", "1">>)}}

\* validation and hashing done, the INSERT not yet sent
RegisterBegin(b) ==
    /\ RegisterValidate(rev, b) = "ok"
    /\ Len(log) + Cardinality(inflight) < MaxInflight
    /\ \E k \in 1..MaxInflight :
        /\ \A f \in inflight : f.k # k
        /\ \A j \in 1..(k - 1) : \E f \in inflight : f.k = j
        /\ inflight' = inflight \cup {[k |-> k, body |-> b]}
    /\ UNCHANGED <<rev, secret, users, orders, req, resp, sql, log, now, issued>>

\* the INSERT of one suspended request runs, and the request is answered
RegisterFinish(f, db) ==
    LET out == RegisterInsert(rev, users, f.body, db)
    IN  /\ f \in inflight
        /\ Len(out.users) <= MaxUsers
        /\ inflight' = inflight \ {f}
        /\ req' = [op |-> "register", body |-> f.body, db |-> db]
        /\ users' = out.users
        /\ resp' = out.resp
        /\ sql' = out.sql
        /\ log' = Append(log, [email |-> ToText(f.body.email),
                               student_id |-> ToText(f.body.student_id),
                               db |-> db, others |-> Cardinality(inflight) - 1,
                               status |-> out.resp.status,
                               msg |-> out.resp.msg])
        /\ issued' = Holding(issued, out.resp)
        /\ UNCHANGED <<rev, secret, orders, now>>

\* ------------------------------------------------------------------------
\* Specifications
\* ------------------------------------------------------------------------
\* registration and login, one request at a time
Next ==
    \/ \E b \in RegisterBodies : Register(b, "up")
    \/ \E b \in RegisterBodiesDbDown : Register(b, "down")
    \/ \E b \in LoginBodies, db \in DbStates : Login(b, db)

Spec == Init /\ [][Next]_vars

\* the order route behind the guard, with users to issue tokens for
SeedBodies ==
    {RegisterBody(Present, Str(e), Str(<<"p">>), Present, r, Str(<<"1">>)) :
        e \in {EmailA1, EmailB1}, r \in Roles}

NextOrders ==
    \/ \E b \in SeedBodies : Register(b, "up")
    \/ \E h \in Headers(users), b \in OrderBodies, db \in DbStates :
          PostOrders(h, b, db)

SpecOrders == Init /\ [][NextOrders]_vars

\* the guards in front of the shop routes, with the clock moving and the
\* clients presenting the tokens they were given
GuardSeed == RegisterBody(Present, Str(EmailA1), Str(<<"p">>), Present, Undef,
                          Str(<<"1">>))
GuardLogin == [email |-> Str(EmailA1), password |-> Str(<<"p">>)]

HeldHeaders(held) ==
    {NoHeader, Header(<<Word("Bearer"), Word("x")>>),
     Header(<<Word("Bearer"), Jwt(ForgedToken)>>)}
    \cup {Header(<<Word("Bearer"), Jwt(t)>>) : t \in held}

NextGuard ==
    \/ Register(GuardSeed, "up")
    \/ Login(GuardLogin, "up")
    \/ \E i \in 1..MaxUsers : GrantShop(i)
    \/ Tick
    \/ \E h \in HeldHeaders(issued), db \in DbStates : ListOrders(h, db)
    \/ \E h \in HeldHeaders(issued), db \in DbStates :
          UpdateOrder(h, 1, "ready", db)

SpecGuard == Init /\ [][NextGuard]_vars

\* orders from their creation to their delivery: a user who orders, is
\* given the shop role, and lists and updates the orders
CompleteOrder == OrderBody(Num(<<"1">>), Num(<<"5">>), Present, Present, Undef)

\* a complete body; one that also names another owner and a status; one
\* whose total is 0; one without its classroom
ShopOrderBodies ==
    {CompleteOrder,
     [CompleteOrder EXCEPT !.user_id = Num(<<"2">>),
                           !.status = Str(<<"d", "e", "l", "i", "v", "e", "r", "e", "d">>)],
     [CompleteOrder EXCEPT !.total_amount = Num(<<"0">>)],
     [CompleteOrder EXCEPT !.classroom = Undef]}

ShopHeaders(held) == {NoHeader} \cup {Header(<<Word("Bearer"), Jwt(t)>>) : t \in held}

NextShop ==
    \/ Register(GuardSeed, "up")
    \/ Login(GuardLogin, "up")
    \/ \E i \in 1..MaxUsers : GrantShop(i)
    \/ \E h \in ShopHeaders(issued), b \in ShopOrderBodies, db \in DbStates :
          PostOrders(h, b, db)
    \/ \E h \in ShopHeaders(issued), db \in DbStates : ListOrders(h, db)
    \/ \E h \in ShopHeaders(issued), id \in 1..MaxOrders, st \in StatusInputs :
          UpdateOrder(h, id, st, "up")
    \/ \E h \in ShopHeaders(issued) : UpdateOrder(h, 1, "ready", "down")

SpecShop == Init /\ [][NextShop]_vars

\* the queue of the shop: orders created as the clock moves and listed,
\* each request carrying a token obtained just before it
FreshHeaders(tbl) == {Header(<<Word("Bearer"), Jwt(t)>>) : t \in IssuedTokens(tbl)}

NextFifo ==
    \/ Register(GuardSeed, "up")
    \/ \E i \in 1..MaxUsers : GrantShop(i)
    \/ Tick
    \/ \E h \in FreshHeaders(users) : PostOrders(h, CompleteOrder, "up")
    \/ \E h \in FreshHeaders(users) : ListOrders(h, "up")

SpecFifo == Init /\ [][NextFifo]_vars

\* concurrent registrations
NextConcurrent ==
    \/ \E b \in ConcurrentBodies : RegisterBegin(b)
    \/ \E f \in inflight, db \in DbStates : RegisterFinish(f, db)

SpecConcurrent == Init /\ [][NextConcurrent]_vars

\* ------------------------------------------------------------------------
\* Vocabulary of the properties
\* ------------------------------------------------------------------------
FieldsPresent(b) ==
    /\ Truthy(b.full_name) /\ Truthy(b.email) /\ Truthy(b.password)
    /\ Truthy(b.phone) /\ Truthy(b.student_id)

InDomain(e) == EndsWith(ToLowerCase(e), requiredDomain)
LocalDigits(e) == MatchTrailingDigits(SplitAt0(e))

\* the error of the first validation step a body fails, "none" if it
\* passes the three steps
FirstFailingStep(b) ==
    IF ~FieldsPresent(b) THEN "MissingFields"
    ELSE IF ~InDomain(b.email.v) THEN "InvalidDomain"
    ELSE IF LocalDigits(b.email.v) = <<>> THEN "MissingStudentIdInEmail"
    ELSE IF ~StrictEq(Str(LocalDigits(b.email.v)), b.student_id)
    THEN "StudentIdMismatch"
    ELSE "none"

IsRegister(q) == q.op = "register" /\ q.body.email.t # "num"

\* ------------------------------------------------------------------------
\* C1: a register request that fails validation is answered 400 with the
\* error of the first step it fails, in the order required fields, domain,
\* digits in the e-mail, digits equal to student_id; each of the four
\* errors has its own message.
\* ------------------------------------------------------------------------
C1_ValidationOrder ==
    (IsRegister(req) /\ FirstFailingStep(req.body) # "none")
        => (resp.status = 400 /\ resp.msg = FirstFailingStep(req.body))

\* ------------------------------------------------------------------------
\* C2 as stated: every register request whose e-mail, lowercased, does not
\* end in @ucq.edu.mx is answered 400 InvalidDomain and inserts no user.
\* ------------------------------------------------------------------------
C2_AsStated ==
    [][(IsRegister(req') /\ req'.body.email.t = "str"
        /\ ~InDomain(req'.body.email.v))
          => (resp'.status = 400 /\ resp'.msg = "InvalidDomain"
              /\ users' = users)]_vars

\* C2 amended: every register request with the five required fields
\* present whose e-mail, lowercased, does not end in @ucq.edu.mx is
\* answered 400 InvalidDomain, and it inserts no user.
C2_InvalidDomain ==
    [][(IsRegister(req') /\ FieldsPresent(req'.body)
        /\ ~InDomain(req'.body.email.v))
          => (resp'.status = 400 /\ resp'.msg = "InvalidDomain"
              /\ sql' = <<>> /\ users' = users)]_vars

C2_Witness ==
    /\ IsRegister(req) /\ FieldsPresent(req.body)
    /\ ~InDomain(req.body.email.v)
    /\ Includes(req.body.email.v, requiredDomain)
    /\ resp.msg = "InvalidDomain"

\* ------------------------------------------------------------------------
\* C3: a register request with the required fields present, an e-mail
\* local+digits@ucq.edu.mx and a student_id that is not the string digits
\* is answered 400 StudentIdMismatch and inserts no user.
\* ------------------------------------------------------------------------
C3_StudentIdMismatch ==
    [][(IsRegister(req') /\ FieldsPresent(req'.body)
        /\ InDomain(req'.body.email.v)
        /\ LocalDigits(req'.body.email.v) # <<>>
        /\ ~StrictEq(Str(LocalDigits(req'.body.email.v)), req'.body.student_id))
          => (resp'.status = 400 /\ resp'.msg = "StudentIdMismatch"
              /\ users' = users)]_vars

\* ------------------------------------------------------------------------
\* C4: a register request with the required fields present and an e-mail
\* in the domain whose local part does not end in a digit is answered 400
\* MissingStudentIdInEmail and inserts no user.
\* ------------------------------------------------------------------------
C4_MissingStudentIdInEmail ==
    [][(IsRegister(req') /\ FieldsPresent(req'.body)
        /\ InDomain(req'.body.email.v)
        /\ LocalDigits(req'.body.email.v) = <<>>)
          => (resp'.status = 400 /\ resp'.msg = "MissingStudentIdInEmail"
              /\ users' = users)]_vars

\* ------------------------------------------------------------------------
\* C5: every user row has the role client, and a 201 answer of register
\* carries a token and a user view of role client, whatever role the body
\* carries.
\* ------------------------------------------------------------------------
C5_RoleForcedToClient ==
    /\ \A i \in 1..Len(users) : users[i].role = RoleClient
    /\ (req.op = "register" /\ resp.status = 201)
          => (/\ resp.token.sig = "server"
              /\ resp.token.role = RoleClient
              /\ resp.user.role = RoleClient)

\* ------------------------------------------------------------------------
\* C6: a register request that passes the three validation steps, whose
\* INSERT reaches the database, and whose e-mail or student ID is that of
\* a user already registered, is answered 400 DuplicateUser and leaves
\* table users as it was.
\* ------------------------------------------------------------------------
Collides(tbl, b) ==
    \E i \in 1..Len(tbl) :
        \/ tbl[i].email = b.email.v
        \/ tbl[i].student_id = b.student_id.v

C6_DuplicateUser ==
    [][(IsRegister(req') /\ FirstFailingStep(req'.body) = "none"
        /\ req'.db = "up" /\ Collides(users, req'.body))
          => (resp'.status = 400 /\ resp'.msg = "DuplicateUser"
              /\ users' = users)]_vars

\* the second registration of an e-mail has been answered
C6_Witness ==
    /\ IsRegister(req) /\ FirstFailingStep(req.body) = "none"
    /\ \E i \in 1..Len(users) : users[i].email = req.body.email.v
    /\ resp.status = 400 /\ resp.msg = "DuplicateUser"

\* ------------------------------------------------------------------------
\* C7: no two user rows share an e-mail or a student ID, whatever the
\* interleaving of the register requests; of the requests whose INSERT
\* reached the database, no two that collide were both answered 201, and
\* each one not answered 201 was answered 400 DuplicateUser and collides
\* with one answered 201 before it.
\* ------------------------------------------------------------------------
SameKey(x, y) == x.email = y.email \/ x.student_id = y.student_id

C7_UniqueUsers ==
    /\ \A i, j \in 1..Len(users) :
          (i # j) => ~SameKey(users[i], users[j])
    /\ \A i, j \in 1..Len(log) :
          (i # j /\ SameKey(log[i], log[j]))
              => ~(log[i].status = 201 /\ log[j].status = 201)
    /\ \A i \in 1..Len(log) :
          (log[i].db = "up" /\ log[i].status # 201)
              => /\ log[i].status = 400 /\ log[i].msg = "DuplicateUser"
                 /\ \E j \in 1..(i - 1) :
                       log[j].status = 201 /\ SameKey(log[i], log[j])

\* two requests for one e-mail were in flight together: one 201, one 400
C7_Witness ==
    /\ Len(log) = 2
    /\ log[1].others >= 1 /\ log[1].status = 201
    /\ log[2].email = log[1].email
    /\ log[2].status = 400 /\ log[2].msg = "DuplicateUser"
    /\ Len(users) = 1

\* ------------------------------------------------------------------------
\* C8: every user row has an e-mail in the domain @ucq.edu.mx whose local
\* part ends in a run of digits equal to the row's student_id.
\* ------------------------------------------------------------------------
C8_RowsMatchEmail ==
    \A i \in 1..Len(users) :
        /\ InDomain(users[i].email)
        /\ LocalDigits(users[i].email) # <<>>
        /\ LocalDigits(users[i].email) = users[i].student_id

\* ------------------------------------------------------------------------
\* C9: a login whose e-mail is of no user, and a login whose e-mail is of
\* a user but whose password is not that user's (an absent password
\* included), get the same answer: 401 InvalidCredentials.
\* ------------------------------------------------------------------------
C9_InvalidCredentials ==
    (/\ req.op = "login" /\ req.db = "up"
     /\ \A i \in 1..Len(users) :
           users[i].email = req.body.email.v
               => users[i].password_hash # BcryptHash(req.body.password))
        => resp = Response(401, "InvalidCredentials")

\* ------------------------------------------------------------------------
\* C10: POST /api/orders with no Authorization header, or with one that
\* has no second field, is answered 401 MissingToken whatever the body, and
\* no database statement is issued.
\* ------------------------------------------------------------------------
NoBearerToken(h) == ~h.present \/ Len(h.fields) < 2

RequiredOrderFields(b) ==
    /\ Truthy(b.shop_id) /\ Truthy(b.total_amount)
    /\ Truthy(b.building) /\ Truthy(b.classroom)

C10_AuthBeforeBody ==
    [][(req'.op = "orders" /\ NoBearerToken(req'.header))
          => (resp' = Response(401, "MissingToken") /\ sql' = <<>>
              /\ orders' = orders /\ users' = users)]_vars

\* a request without a token and without the order fields was answered 401
C10_Witness ==
    /\ req.op = "orders" /\ NoBearerToken(req.header)
    /\ ~RequiredOrderFields(req.body)
    /\ resp.status = 401 /\ resp.msg = "MissingToken"

\* ------------------------------------------------------------------------
\* The guard claims
\* ------------------------------------------------------------------------
Bearer(t) == Header(<<Word("Bearer"), Jwt(t)>>)
Guarded(q) == q.op \in {"orders", "list", "update"}
ShopRoute(q) == q.op \in {"list", "update"}

\* the request carried, as its second header field, a token the server
\* signed, and was served before that token's expiry
Authentic(q) ==
    /\ q.header.present
    /\ Len(q.header.fields) >= 2
    /\ q.header.fields[2].w = "jwt"
    /\ q.header.fields[2].tok.sig = "server"
    /\ q.at < q.header.fields[2].tok.exp

\* C11: a token issued by register or login passes Authenticate at every
\* moment before its issue time plus one hour, whatever was done since; from
\* then on it is answered 401 InvalidToken, the very answer a malformed or
\* wrongly signed token gets
C11_TokenLifetime ==
    \A t \in issued :
        (Guarded(req) /\ req.header = Bearer(t)) =>
            IF req.at < t.iat + TokenLifetime
            THEN resp.status # 401
            ELSE /\ resp = Response(401, "InvalidToken")
                 /\ resp = VerifyToken(Header(<<Word("Bearer"), Word("x")>>)).resp
                 /\ resp = VerifyToken(Bearer(ForgedToken)).resp

\* an issued token was presented at or after its expiry and answered 401
C11_Witness ==
    \E t \in issued :
        /\ Guarded(req) /\ req.header = Bearer(t)
        /\ req.at >= t.iat + TokenLifetime
        /\ resp.status = 401

\* C12: a request with a valid, unexpired token whose role is not 'shop' is
\* answered 403 Forbidden on every shop route
C12_ClientForbidden ==
    (ShopRoute(req) /\ Authentic(req)
        /\ req.header.fields[2].tok.role # RoleShop)
    => resp = Response(403, "Forbidden")

\* a client's unexpired token was presented to the status update
C12_Witness ==
    /\ req.op = "update" /\ Authentic(req)
    /\ req.header.fields[2].tok.role = RoleClient
    /\ resp.status = 403

\* C13: the role is checked only once Authenticate has succeeded, a shop
\* route's handler reaches the database only once both stages have passed,
\* and no statement is sent for a request answered 401 or 403
C13_GuardSequence ==
    ShopRoute(req) =>
        /\ resp.status = 403 => Authentic(req)
        /\ sql # <<>> =>
              Authentic(req) /\ req.header.fields[2].tok.role = RoleShop
        /\ resp.status \in {401, 403} => sql = <<>>

\* a shop's request went through both stages and its handler ran its query
C13_Witness ==
    /\ req.op = "list" /\ Authentic(req)
    /\ req.header.fields[2].tok.role = RoleShop
    /\ sql # <<>> /\ resp.status = 200

\* ------------------------------------------------------------------------
\* The token and order claims
\* ------------------------------------------------------------------------
\* C14: a token handed out by a successful register or login carries the id
\* and the role of the persisted row of the user it was issued for, and a
\* successful login is answered 200
C14_TokenMatchesRow ==
    (req.op \in {"register", "login"} /\ resp.token # NoToken) =>
        /\ resp.token.sig = "server"
        /\ resp.status = IF req.op = "login" THEN 200 ELSE 201
        /\ \E i \in 1..Len(users) :
              /\ users[i].email = ToText(req.body.email)
              /\ users[i].id = resp.token.id
              /\ users[i].role = resp.token.role

\* a login of a user whose row has the shop role was answered with a token
C14_Witness ==
    /\ req.op = "login" /\ resp.status = 200
    /\ resp.token.role = RoleShop
    /\ \E i \in 1..Len(users) :
          users[i].id = resp.token.id /\ users[i].role = RoleShop

\* the row the last request added to the orders table
NewOrder == orders[Len(orders)]

\* C15: the user_id of every order row POST /api/orders creates is the id
\* claim of the token that authenticated the request; a user_id in the body
\* has no influence on it
C15_OwnerFromToken ==
    [][(req'.op = "orders" /\ Len(orders') > Len(orders)) =>
          /\ Authentic(req')
          /\ NewOrder'.user_id = req'.header.fields[2].tok.id]_vars

\* an order was created from a body that names another user as its owner
C15_Witness ==
    /\ req.op = "orders" /\ resp.status = 201 /\ Len(orders) > 0
    /\ Truthy(req.body.user_id)
    /\ ToText(req.body.user_id) # <<"1">>
    /\ NewOrder.user_id = 1

\* at least one of the four required fields is absent from the body
AnyRequiredAbsent(b) ==
    \E x \in {b.shop_id, b.total_amount, b.building, b.classroom} : x = Undef

\* C16: an authenticated POST /api/orders is answered 400 MissingFields,
\* with no row inserted, if and only if at least one of shop_id,
\* total_amount, building and classroom is absent from the body
C16_MissingFieldsIffAbsent ==
    [][(req'.op = "orders" /\ Authentic(req')) =>
          (AnyRequiredAbsent(req'.body) <=>
              (resp' = Response(400, "MissingFields") /\ orders' = orders))]_vars

\* the step serves a request: it changes the request, the answer or the
\* orders table
Served == <<req, resp, orders>>' # <<req, resp, orders>>

\* C17: a POST /api/orders answered 201 has inserted exactly one new order
\* row, with the status 'pending' whatever status the body carries, and the
\* answer names the new row's id
C17_CreatedMeansInserted ==
    [][(Served /\ req'.op = "orders" /\ resp'.status = 201) =>
          /\ Len(orders') = Len(orders) + 1
          /\ SubSeq(orders', 1, Len(orders)) = orders
          /\ NewOrder'.status = "pending"
          /\ resp'.user.id = NewOrder'.id]_vars

\* ------------------------------------------------------------------------
\* The shop route claims
\* ------------------------------------------------------------------------
NonTerminal == {"pending", "preparing", "ready"}

\* C18: the orders a shop's GET /api/shop/orders returns are exactly the
\* orders whose status is pending, preparing or ready, each once and with
\* its current status
C18_ListsNonTerminal ==
    (req.op = "list" /\ resp.status = 200) =>
        /\ {resp.orders[k].id : k \in 1..Len(resp.orders)}
              = {orders[i].id : i \in {j \in 1..Len(orders) :
                                         orders[j].status \in NonTerminal}}
        /\ \A j, k \in 1..Len(resp.orders) :
              j # k => resp.orders[j].id # resp.orders[k].id
        /\ \A k \in 1..Len(resp.orders) : \E i \in 1..Len(orders) :
              orders[i].id = resp.orders[k].id
              /\ orders[i].status = resp.orders[k].status

\* a listing that shows an order in preparation and leaves a delivered one out
C18_Witness ==
    /\ req.op = "list" /\ resp.status = 200
    /\ \E k \in 1..Len(resp.orders) : resp.orders[k].status = "preparing"
    /\ \E i \in 1..Len(orders) : orders[i].status = "delivered"

\* C19: the listing is in creation order: an order created before another
\* (the table gives it the smaller id) comes before it, also when the two
\* share their creation timestamp
C19_ListedInCreationOrder ==
    (req.op = "list" /\ resp.status = 200) =>
        \A j, k \in 1..Len(resp.orders) :
            j < k => resp.orders[j].id < resp.orders[k].id

\* the request is a shop's status update with a status of the valid set,
\* served with the database up
ShopUpdate(q) ==
    /\ q.op = "update" /\ Authentic(q)
    /\ q.header.fields[2].tok.role = RoleShop
    /\ q.status \in {"preparing", "ready", "delivered", "cancelled"}
    /\ q.db = "up"

\* C20: a shop's update with a valid status is answered 200 and sets the
\* status of the order of that id, whatever status it had (a terminal one,
\* or the one asked for); when no order has that id it is answered 404
\* OrderNotFound and no row changes
C20_UpdateSetsStatus ==
    [][ShopUpdate(req') =>
          IF \E i \in 1..Len(orders) : orders[i].id = req'.id
          THEN /\ resp'.status = 200
               /\ orders' = [i \in 1..Len(orders) |->
                                IF orders[i].id = req'.id
                                THEN [orders[i] EXCEPT !.status = req'.status]
                                ELSE orders[i]]
          ELSE /\ resp' = Response(404, "OrderNotFound")
               /\ orders' = orders]_vars

\* an update answered 200 has set one order's status and left another
\* order, of another status, as it was
C20_Witness ==
    /\ ShopUpdate(req) /\ resp.status = 200
    /\ \E i, j \in 1..Len(orders) :
          /\ orders[i].id = req.id /\ orders[i].status = req.status
          /\ orders[j].id # req.id /\ orders[j].status # req.status

\* the request is a shop's status update, whatever status it asks for
ByShop(q) ==
    /\ q.op = "update" /\ Authentic(q)
    /\ q.header.fields[2].tok.role = RoleShop

\* C21: a shop's update whose status is absent or outside {preparing, ready,
\* delivered, cancelled} ('pending' included) is answered 400 InvalidStatus
\* whether or not the order exists and changes no order row; the status is
\* checked before the order is looked up, so no statement is sent
C21_InvalidStatus ==
    [][(ByShop(req')
          /\ req'.status \notin {"preparing", "ready", "delivered", "cancelled"}) =>
          /\ resp' = Response(400, "InvalidStatus")
          /\ orders' = orders
          /\ sql' = <<>>]_vars

\* 'pending' was asked for an order that does not exist, and answered 400
C21_Witness ==
    /\ ByShop(req) /\ req.status = "pending"
    /\ \A i \in 1..Len(orders) : orders[i].id # req.id
    /\ resp.status = 400

\* ------------------------------------------------------------------------
\* The frame claims
\* ------------------------------------------------------------------------
\* C22: no step deletes an order, and an existing order row changes only in
\* a step that serves a status update carrying a verified shop token: then
\* it is the order of the request's id, and only its status changes
C22_OrdersFrame ==
    [][/\ Len(orders') >= Len(orders)
       /\ \A i \in 1..Len(orders) :
             orders'[i] # orders[i] =>
                 /\ ByShop(req')
                 /\ orders[i].id = req'.id
                 /\ orders'[i] = [orders[i] EXCEPT !.status = req'.status]]_vars

\* an order was created after another had left 'pending', and left it alone
C22_Witness ==
    /\ req.op = "orders" /\ resp.status = 201
    /\ Len(orders) = 2
    /\ orders[1].status = "ready"

\* the step is the assignment of the shop role by hand, outside the API
ByHand == \E i \in 1..MaxUsers : GrantShop(i)

\* C23: the API changes table users only by appending one row in a
\* registration answered 201: login, order creation, listing and status
\* update leave the table as it was, and so does every registration that
\* is not answered 201
C23_UsersFrame ==
    [][ByHand \/ users' = users
       \/ /\ req'.op = "register" /\ resp'.status = 201
          /\ Len(users') = Len(users) + 1
          /\ SubSeq(users', 1, Len(users)) = users]_vars

\* C24: no request has a partial outcome: table users changes only in a
\* registration answered 201, and a registration answered 201 has added
\* its one row; in particular no registration adds a row and then
\* answers another status
C24_NoPartialFailure ==
    [][/\ users' # users => (req'.op = "register" /\ resp'.status = 201)
       /\ (Served /\ req'.op = "register" /\ resp'.status = 201)
             => Len(users') = Len(users) + 1]_vars

\* ------------------------------------------------------------------------
\* The disclosure claims
\* ------------------------------------------------------------------------
\* the fields of a user an answer may carry, and the columns of an order
UserFields ==
    {"id", "full_name", "name", "email", "role", "student_id", "phone",
     "client_name", "client_phone"}
OrderFields ==
    {"id", "status", "total_amount", "created_at", "building", "classroom",
     "delivery_notes"}

\* C25: no answer carries a password hash: the user view of register and
\* login and the rows of the listing have no other field of a user than
\* id, full name, e-mail, role, student ID and phone
C25_NoPasswordHash ==
    /\ DOMAIN resp = {"status", "msg", "detail", "token", "user", "orders"}
    /\ DOMAIN resp.user \subseteq UserFields
    /\ DOMAIN resp.token = {"id", "role", "sig", "iat", "exp"}
    /\ \A k \in 1..Len(resp.orders) :
          DOMAIN resp.orders[k] \subseteq (OrderFields \cup UserFields)

\* a listing whose row carries the name of a user who has a password hash
C25_Witness ==
    /\ req.op = "list" /\ Len(resp.orders) > 0
    /\ \E i \in 1..Len(users) :
          /\ users[i].full_name = resp.orders[1].client_name
          /\ users[i].password_hash = BcryptHash(Str(<<"p">>))

\* C26: a request whose statement fails in the driver is answered 500
\* InternalError with a generic message and nothing of the failure in the
\* body, and the statement is sent once, not retried
C26_GenericInternalError ==
    (req.op \in {"register", "login"} /\ sql # <<>> /\ ~sql[1].done
        /\ req.db = "down") =>
        /\ resp = Response(500, "InternalError")
        /\ resp.detail = ""
        /\ Len(sql) = 1

\* ------------------------------------------------------------------------
\* The role and order-lifetime claims
\* ------------------------------------------------------------------------
\* C27: from a database without a shop user, no sequence of register and
\* login requests yields a token whose role claim is 'shop' (nor a user row
\* of that role for a later login to sign)
C27_NoShopToken ==
    /\ \A t \in issued : t.role # RoleShop
    /\ resp.token.role # RoleShop
    /\ \A i \in 1..Len(users) : users[i].role # RoleShop

\* C28: an order that has left 'pending' is never 'pending' again: only
\* the creation of an order writes 'pending', and an update answered 200
\* leaves its order in another status, so an order is pending exactly as
\* long as no update of it has succeeded
C28_NeverPendingAgain ==
    [][/\ \A i \in 1..Len(orders) :
             orders[i].status # "pending" =>
                 (i <= Len(orders') /\ orders'[i].status # "pending")
       /\ \A i \in (Len(orders) + 1)..Len(orders') :
             orders'[i].status = "pending"
       /\ (ByShop(req') /\ resp'.status = 200) =>
             \A i \in 1..Len(orders') :
                 orders'[i].id = req'.id => orders'[i].status # "pending"]_vars

\* 'pending' was asked for an order that had left it, and was refused
C28_Witness ==
    /\ ByShop(req) /\ req.status = "pending" /\ resp.status = 400
    /\ \E i \in 1..Len(orders) :
          orders[i].id = req.id /\ orders[i].status = "delivered"

\* C29: the user_id of every order is the id of a row of table users, so
\* the JOIN of the listing drops no order; a listing answered 200 has every
\* order of a listed status
C29_OrdersHaveOwners ==
    /\ \A i \in 1..Len(orders) :
          \E j \in 1..Len(users) : users[j].id = orders[i].user_id
    /\ (req.op = "list" /\ resp.status = 200) =>
          Len(resp.orders) =
              Cardinality({i \in 1..Len(orders) :
                             orders[i].status \in ListedStatuses(rev)})

\* the listing joined two orders with their owner
C29_Witness ==
    /\ req.op = "list" /\ resp.status = 200
    /\ Len(orders) = 2 /\ Len(resp.orders) = 2

\* C30: a request is authenticated only when its Authorization header is
\* the scheme Bearer followed by a token: with another scheme word in front
\* of the token it is answered 401, and with no second field it is answered
\* 401 MissingToken
C30_BearerSchemeRequired ==
    req.op = "orders" =>
        /\ (req.header.present /\ Len(req.header.fields) >= 2
              /\ req.header.fields[1].w # "Bearer") => resp.status = 401
        /\ (req.header.present /\ Len(req.header.fields) < 2)
              => resp = Response(401, "MissingToken")

====
